---- MODULE Spec2Model ----
(***************************************************************************)
(* A model of snapshot-before-deploy.py: the search of the configured      *)
(* Proxmox instances for the entity whose hostname is the local hostname,  *)
(* the detach-and-restore of a container's mount points around the         *)
(* snapshot request, and the polling of the snapshot task.                 *)
(*                                                                         *)
(* The process is sequential.  One action is one step of the script up to  *)
(* and including its next API call (make_request).  A call that fails      *)
(* calls fatal(), which prints an ERROR line and raises SystemExit; the    *)
(* actions follow that exception to the handler the source gives it.       *)
(*                                                                         *)
(* Strings that the code inspects or re-encodes (configuration keys and    *)
(* values) are sequences of one-character strings.                         *)
(***************************************************************************)
EXTENDS Integers, Sequences, FiniteSets, TLC

\* ------------------------------------------------------------------ bounds
\* Number of configured Proxmox instances (config["proxmox_hosts"]).
NumHosts == 2
\* Largest number of entities (containers and machines) over all instances.
MaxEntities == 3
\* Largest number of mount-point keys (mp0, mp1, ...) of a container.
MaxMp == 2
\* Longest time, in seconds, a task-status call takes.
MaxCallTime == 1
\* Longest duration, in seconds, of a short snapshot task.
MaxTaskDur == 1

\* ------------------------------------------------------- program constants
TASK_POLL_INTERVAL == 2
TASK_TIMEOUT == 120

\* ----------------------------------------------------------------- strings
Digits == <<"0", "1", "2", "3", "4", "5", "6", "7", "8", "9">>

KHostname == <<"h", "o", "s", "t", "n", "a", "m", "e">>
KMemory == <<"m", "e", "m", "o", "r", "y">>
KDelete == <<"d", "e", "l", "e", "t", "e">>

\* The key of the i-th mount point: mp0, mp1, ...
MpKey(i) == <<"m", "p", Digits[i]>>

MpKeys == {MpKey(i) : i \in 1..MaxMp}

\* Configuration keys in the order the hypervisor lists them.
KeyOrder == <<KHostname, KMemory>> \o [i \in 1..MaxMp |-> MpKey(i)]

\* The local hostname (socket.gethostname()) and the name of another host.
TargetHostname == <<"w", "e", "b">>
OtherHostname == <<"d", "b">>

\* Mount-point values: a bind mount "/s,mp=/d" and a volume "v:1, +%".
BindValue == <<"/", "s", ",", "m", "p", "=", "/", "d">>
VolumeValue == <<"v", ":", "1", ",", " ", "+", "%">>
MpValues == {BindValue, VolumeValue}

\* A slip of StartsWithMp: k.startswith("m").
StartsWithM(k) == Len(k) >= 1 /\ k[1] = "m"

\* A slip of StartsWithMp: the filter is dropped, every key passes.
StartsWithAnything(k) == TRUE

\* A slip of StartsWithMp: k.startswith("mp0").
StartsWithMp0(k) == Len(k) >= 3 /\ k[1] = "m" /\ k[2] = "p" /\ k[3] = "0"

\* k.startswith("mp")
StartsWithMp(k) == Len(k) >= 2 /\ k[1] = "m" /\ k[2] = "p"

\* Characters urllib's quote_plus leaves as they are.
Unreserved ==
  {"a", "d", "e", "h", "l", "m", "n", "o", "p", "r", "s", "t", "v", "w", "y", "b",
   "0", "1", "2", "3", "4", "5", "6", "7", "8", "9", "_", ".", "-", "~"}

\* The two hexadecimal digits of a reserved character.
HexOf(c) ==
  CASE c = "/" -> <<"2", "F">>
    [] c = ":" -> <<"3", "A">>
    [] c = "," -> <<"2", "C">>
    [] c = "=" -> <<"3", "D">>
    [] c = "+" -> <<"2", "B">>
    [] c = "%" -> <<"2", "5">>
    [] c = "&" -> <<"2", "6">>

\* The character of two hexadecimal digits.
CharOf(h) ==
  CASE h = <<"2", "F">> -> "/"
    [] h = <<"3", "A">> -> ":"
    [] h = <<"2", "C">> -> ","
    [] h = <<"3", "D">> -> "="
    [] h = <<"2", "B">> -> "+"
    [] h = <<"2", "5">> -> "%"
    [] h = <<"2", "6">> -> "&"

\* A slip of QuoteChar: reserved characters are sent as they are.
QuoteCharUnescaped(c) == IF c = " " THEN <<"+">> ELSE <<c>>

\* quote_plus of one character.
QuoteChar(c) ==
  IF c = " " THEN <<"+">>
  ELSE IF c \in Unreserved THEN <<c>>
  ELSE <<"%">> \o HexOf(c)

RECURSIVE QuotePlus(_)
\* urllib.parse.quote_plus(s), which urlencode applies to keys and values.
QuotePlus(s) ==
  IF s = <<>> THEN <<>> ELSE QuoteChar(Head(s)) \o QuotePlus(Tail(s))

\* urlencode({k: v}): the body of a one-parameter PUT.
Urlencode(k, v) == QuotePlus(k) \o <<"=">> \o QuotePlus(v)

RECURSIVE UnquotePlus(_)
\* The hypervisor's decoding of a form-encoded string.
UnquotePlus(s) ==
  IF s = <<>> THEN <<>>
  ELSE IF Head(s) = "+" THEN <<" ">> \o UnquotePlus(Tail(s))
  ELSE IF Head(s) = "%" /\ Len(s) >= 3
    THEN <<CharOf(SubSeq(s, 2, 3))>> \o UnquotePlus(SubSeq(s, 4, Len(s)))
  ELSE <<Head(s)>> \o UnquotePlus(Tail(s))

\* Position of the first "=" of a body (0 when there is none).
EqPos(b) ==
  IF \E i \in 1..Len(b) : b[i] = "="
  THEN CHOOSE i \in 1..Len(b) : b[i] = "=" /\ \A j \in 1..(i - 1) : b[j] # "="
  ELSE 0

\* The hypervisor's parse of a one-parameter form body into <<key, value>>.
ParseBody(b) ==
  <<UnquotePlus(SubSeq(b, 1, EqPos(b) - 1)), UnquotePlus(SubSeq(b, EqPos(b) + 1, Len(b)))>>

\* -------------------------------------------------------------- hypervisor
\* Python's None, for a hostname that a response does not carry.
None == <<>>

\* The entities one instance may hold.  A container reports its hostname in
\* its configuration; a machine reports it through its guest agent, which is
\* up, down (the call fails) or up without a host-name in its answer.  An
\* entity without an ID is a listing entry without "vmid".
EntitiesOf(h) ==
  {[host |-> h, type |-> "lxc", hasId |-> TRUE, name |-> n, agent |-> "none"] :
      n \in {TargetHostname, OtherHostname}}
  \cup {[host |-> h, type |-> "lxc", hasId |-> FALSE, name |-> OtherHostname, agent |-> "none"]}
  \cup {[host |-> h, type |-> "qemu", hasId |-> TRUE, name |-> n, agent |-> "up"] :
      n \in {TargetHostname, OtherHostname}}
  \cup {[host |-> h, type |-> "qemu", hasId |-> TRUE, name |-> OtherHostname, agent |-> a] :
      a \in {"down", "noname"}}
  \cup {[host |-> h, type |-> "qemu", hasId |-> FALSE, name |-> OtherHostname, agent |-> "up"]}

Entities == UNION {EntitiesOf(h) : h \in 1..NumHosts}

TypeRank(ty) == IF ty = "lxc" THEN 1 ELSE 2

\* Entities are kept instance by instance, containers before machines; the
\* order inside one listing is the order of the sequence.
Grouped(w) ==
  \A i, j \in 1..Len(w) :
    i < j =>
      \/ w[i].host < w[j].host
      \/ w[i].host = w[j].host /\ TypeRank(w[i].type) <= TypeRank(w[j].type)

Worlds == UNION {{w \in [1..n -> Entities] : Grouped(w)} : n \in 0..MaxEntities}

\* The mount-point part of a container's configuration.
MpConfigs == UNION {[S -> MpValues] : S \in SUBSET MpKeys}

\* A task stops after a short time, exactly at the deadline, or long after it.
TaskDurs == (0..MaxTaskDur) \cup {TASK_TIMEOUT, 2 * TASK_TIMEOUT}

VARIABLES
  world,        \* the entities of all instances
  srv,          \* srv[i]: the configuration of entity i on its instance
  srv0,         \* srv when the process started
  taskDur,      \* seconds after which the snapshot task is stopped
  callTime,     \* seconds a task-status call takes
  pc,           \* position of the process
  hi,           \* find_host_in_proxmox: index of host_config in hosts
  items,        \* find_host_in_proxmox: the listing being iterated (vmids)
  idx,          \* find_host_in_proxmox: position in items
  result,       \* main: what find_host_in_proxmox returned
  mount_points, \* create_lxc_snapshot: the removed keys and their values
  mi,           \* create_lxc_snapshot: position in mount_points
  pending,      \* create_lxc_snapshot: a SystemExit is passing the finally
  upid,         \* the task handle the snapshot request returned
  t,            \* time.time() - start_time of wait_for_task
  elapsed,      \* wait_for_task: elapsed, as last computed
  status,       \* wait_for_task: status, the last task status received
  polls,        \* number of task-status calls made
  sleeps,       \* number of time.sleep calls made
  calls,        \* the API calls made, task-status calls excepted
  stdout,       \* the INFO lines printed
  stderr,       \* the lines written to sys.stderr
  exit_code     \* the exit code of the process (-1 while it runs)

vars ==
  <<world, srv, srv0, taskDur, callTime, pc, hi, items, idx, result, mount_points,
    mi, pending, upid, t, elapsed, status, polls, sleeps, calls, stdout, stderr, exit_code>>

env == <<world, srv0, taskDur, callTime>>

find_locals == <<hi, items, idx>>

wait_locals == <<t, elapsed, status, polls, sleeps>>

\* The ID of entity i: IDs are unique inside one instance, not across them.
Vmid(i) ==
  IF world[i].hasId
  THEN 100 + i - Cardinality({j \in 1..Len(world) : world[j].host < world[i].host})
  ELSE 0

\* The entity an API path <type>/<vmid> of instance h addresses.
EntityOf(h, ty, id) ==
  CHOOSE i \in 1..Len(world) : world[i].host = h /\ world[i].type = ty /\ Vmid(i) = id

\* A slip of list_vms: the entries in reverse order.
list_vmsReversed(h, ty) ==
  LET sel == {i \in 1..Len(world) : world[i].host = h /\ world[i].type = ty}
      first == IF sel = {} THEN 1 ELSE CHOOSE i \in sel : \A j \in sel : i <= j
  IN  [n \in 1..Cardinality(sel) |-> Vmid(first + Cardinality(sel) - n)]

\* list_vms: the "vmid" of each entry of GET <type>/ (0 when the entry has none).
list_vms(h, ty) ==
  LET sel == {i \in 1..Len(world) : world[i].host = h /\ world[i].type = ty}
      first == IF sel = {} THEN 1 ELSE CHOOSE i \in sel : \A j \in sel : i <= j
  IN  [n \in 1..Cardinality(sel) |-> Vmid(first + n - 1)]

\* The configuration an entity starts with.
InitialConfig(e, mp) ==
  IF e.type = "lxc"
  THEN [k \in {KHostname, KMemory} \cup (IF e.name = TargetHostname THEN DOMAIN mp ELSE {}) |->
          IF k = KHostname THEN e.name
          ELSE IF k = KMemory THEN <<"5", "1", "2">>
          ELSE mp[k]]
  ELSE [k \in {} |-> <<>>]

\* A slip of DictGet: the key is never found.
DictGetMissing(cfg, k) == None

\* config.get(k): the value of k, or None.
DictGet(cfg, k) == IF k \in DOMAIN cfg THEN cfg[k] ELSE None

\* The hypervisor's handling of PUT <type>/<id>/config with a form body.
ApplyPut(cfg, body) ==
  LET kv == ParseBody(body)
  IN  IF kv[1] = KDelete
      THEN [k \in DOMAIN cfg \ {kv[2]} |-> cfg[k]]
      ELSE [k \in DOMAIN cfg \cup {kv[1]} |-> IF k = kv[1] THEN kv[2] ELSE cfg[k]]

\* The keys of a dict in iteration order (the order of the response).
KeysInOrder(d) ==
  LET In(k) == k \in DOMAIN d
  IN  SelectSeq(KeyOrder, In)

NoResult == [host |-> 0, type |-> "none", vmid |-> 0]

NoStatus == [status |-> "", exitstatus |-> ""]

\* One entry of the call log.
Call(op, method, h, ty, id, key, val, params, ok) ==
  [op |-> op, method |-> method, host |-> h, type |-> ty, vmid |-> id, key |-> key,
   val |-> val, params |-> params, ok |-> ok]

\* info(msg): the line it prints.
Info(msg, arg) == [msg |-> msg, arg |-> arg]

\* fatal(msg): the line it prints.
ErrorLine(msg, op, detail) == [level |-> "ERROR", msg |-> msg, op |-> op, detail |-> detail]

\* The warning of the restoration loop.
WarningLine(msg, op, detail) == [level |-> "WARNING", msg |-> msg, op |-> op, detail |-> detail]

\* The state at the call of find_host_in_proxmox in main.  The search is
\* explored over every world with one short task and one mount point; the
\* snapshot procedures are explored over every mount-point configuration,
\* task duration and call time in the worlds of at most one entity.
Init ==
  /\ world \in Worlds
  /\ \E mp \in MpConfigs :
       /\ \/ Len(world) <= 1 /\ taskDur \in TaskDurs /\ callTime \in 0..MaxCallTime
          \/ mp = [k \in {MpKey(1)} |-> BindValue] /\ taskDur = 0 /\ callTime = 0
       /\ srv = [i \in 1..Len(world) |-> InitialConfig(world[i], mp)]
  /\ srv0 = srv
  /\ pc = "list_lxc"
  /\ hi = 1
  /\ items = <<>>
  /\ idx = 1
  /\ result = NoResult
  /\ mount_points = [k \in {} |-> <<>>]
  /\ mi = 1
  /\ pending = FALSE
  /\ upid = ""
  /\ t = 0
  /\ elapsed = 0
  /\ status = NoStatus
  /\ polls = 0
  /\ sleeps = 0
  /\ calls = <<>>
  /\ stdout = <<Info("Loading config", 0), Info("Current hostname", 0)>>
  /\ stderr = <<>>
  /\ exit_code = -1

\* A slip of Exit: the process ends with exit code 0 whatever the code.
ExitZero(code) == pc' = "exited" /\ exit_code' = 0

\* sys.exit(code) reaching the top of the process.
Exit(code) == pc' = "exited" /\ exit_code' = code

\* ------------------------------------------------------ find_host_in_proxmox
\* A slip of Matches: any hostname matches.
MatchesAny(hostname) == hostname # None

\* hostname == target_hostname
Matches(hostname) == hostname = TargetHostname

\* for lxc in list_vms(host_config, "lxc")
ListLxc ==
  /\ pc = "list_lxc"
  /\ stdout' = Append(stdout, Info("Searching Proxmox", hi))
  /\ \/ /\ calls' = Append(calls, Call("list_vms", "GET", hi, "lxc", 0, <<>>, <<>>, {}, TRUE))
        /\ items' = list_vms(hi, "lxc")
        /\ idx' = 1
        /\ pc' = "lxc_loop"
        /\ UNCHANGED <<stderr, exit_code>>
     \/ /\ calls' = Append(calls, Call("list_vms", "GET", hi, "lxc", 0, <<>>, <<>>, {}, FALSE))
        /\ stderr' = Append(stderr, ErrorLine("http", "list_vms", ""))
        /\ Exit(1)
        /\ UNCHANGED <<items, idx>>
  /\ UNCHANGED <<env, srv, hi, result, mount_points, mi, pending, upid, wait_locals>>

\* One iteration of the loop over the containers of host_config.
LxcLoop ==
  /\ pc = "lxc_loop"
  /\ \/ /\ idx > Len(items)
        /\ pc' = "list_qemu"
        /\ UNCHANGED <<idx, result, calls, stdout, stderr, exit_code>>
     \/ /\ idx <= Len(items)
        /\ items[idx] = 0
        /\ idx' = idx + 1
        /\ UNCHANGED <<pc, result, calls, stdout, stderr, exit_code>>
     \/ /\ idx <= Len(items)
        /\ items[idx] # 0
        /\ calls' = Append(calls,
             Call("get_lxc_hostname", "GET", hi, "lxc", items[idx], <<>>, <<>>, {}, TRUE))
        /\ LET hostname == DictGet(srv[EntityOf(hi, "lxc", items[idx])], KHostname)
           IN  \/ /\ Matches(hostname)
                  /\ stdout' = Append(stdout, Info("Found LXC", items[idx]))
                  /\ result' = [host |-> hi, type |-> "lxc", vmid |-> items[idx]]
                  /\ pc' = "main_result"
                  /\ UNCHANGED idx
               \/ /\ ~Matches(hostname)
                  /\ idx' = idx + 1
                  /\ UNCHANGED <<pc, result, stdout>>
        /\ UNCHANGED <<stderr, exit_code>>
     \/ /\ idx <= Len(items)
        /\ items[idx] # 0
        /\ calls' = Append(calls,
             Call("get_lxc_hostname", "GET", hi, "lxc", items[idx], <<>>, <<>>, {}, FALSE))
        /\ stderr' = Append(stderr, ErrorLine("http", "get_lxc_hostname", ""))
        /\ Exit(1)
        /\ UNCHANGED <<idx, result, stdout>>
  /\ UNCHANGED <<env, srv, hi, items, mount_points, mi, pending, upid, wait_locals>>

\* for qemu in list_vms(host_config, "qemu")
ListQemu ==
  /\ pc = "list_qemu"
  /\ \/ /\ calls' = Append(calls, Call("list_vms", "GET", hi, "qemu", 0, <<>>, <<>>, {}, TRUE))
        /\ items' = list_vms(hi, "qemu")
        /\ idx' = 1
        /\ pc' = "qemu_loop"
        /\ UNCHANGED <<stderr, exit_code>>
     \/ /\ calls' = Append(calls, Call("list_vms", "GET", hi, "qemu", 0, <<>>, <<>>, {}, FALSE))
        /\ stderr' = Append(stderr, ErrorLine("http", "list_vms", ""))
        /\ Exit(1)
        /\ UNCHANGED <<items, idx>>
  /\ UNCHANGED <<env, srv, hi, result, mount_points, mi, pending, upid, wait_locals, stdout>>

\* A slip of AgentUnavailable: the SystemExit is not caught.
AgentUnavailableFatal ==
  /\ stderr' = Append(stderr, ErrorLine("http", "get_qemu_hostname", ""))
  /\ Exit(1)
  /\ UNCHANGED <<idx, result, stdout>>

\* get_qemu_hostname when the call fails: fatal has printed its line, the
\* SystemExit is caught and None is returned, so that the loop of
\* find_host_in_proxmox goes on to the next machine.
AgentUnavailable ==
  /\ stderr' = Append(stderr, ErrorLine("http", "get_qemu_hostname", ""))
  /\ idx' = idx + 1
  /\ UNCHANGED <<pc, result, stdout, exit_code>>

\* One iteration of the loop over the machines of host_config, and the end
\* of the loop over hosts.
QemuLoop ==
  /\ pc = "qemu_loop"
  /\ \/ /\ idx > Len(items)
        /\ hi < NumHosts
        /\ hi' = hi + 1
        /\ pc' = "list_lxc"
        /\ UNCHANGED <<idx, result, calls, stdout, stderr, exit_code>>
     \/ /\ idx > Len(items)
        /\ hi = NumHosts
        /\ result' = NoResult
        /\ pc' = "main_result"
        /\ UNCHANGED <<hi, idx, calls, stdout, stderr, exit_code>>
     \/ /\ idx <= Len(items)
        /\ items[idx] = 0
        /\ idx' = idx + 1
        /\ UNCHANGED <<pc, hi, result, calls, stdout, stderr, exit_code>>
     \/ /\ idx <= Len(items)
        /\ items[idx] # 0
        /\ world[EntityOf(hi, "qemu", items[idx])].agent = "down"
        /\ calls' = Append(calls,
             Call("get_qemu_hostname", "GET", hi, "qemu", items[idx], <<>>, <<>>, {}, FALSE))
        /\ AgentUnavailable
        /\ UNCHANGED hi
     \/ /\ idx <= Len(items)
        /\ items[idx] # 0
        /\ world[EntityOf(hi, "qemu", items[idx])].agent # "down"
        /\ calls' = Append(calls,
             Call("get_qemu_hostname", "GET", hi, "qemu", items[idx], <<>>, <<>>, {}, TRUE))
        /\ LET e == world[EntityOf(hi, "qemu", items[idx])]
               hostname == IF e.agent = "up" THEN e.name ELSE None
           IN  \/ /\ hostname = None
                  /\ idx' = idx + 1
                  /\ UNCHANGED <<pc, result, stdout>>
               \/ /\ hostname # None
                  /\ Matches(hostname)
                  /\ stdout' = Append(stdout, Info("Found QEMU VM", items[idx]))
                  /\ result' = [host |-> hi, type |-> "qemu", vmid |-> items[idx]]
                  /\ pc' = "main_result"
                  /\ UNCHANGED idx
               \/ /\ hostname # None
                  /\ ~Matches(hostname)
                  /\ idx' = idx + 1
                  /\ UNCHANGED <<pc, result, stdout>>
        /\ UNCHANGED <<hi, stderr, exit_code>>
  /\ UNCHANGED <<env, srv, items, mount_points, mi, pending, upid, wait_locals>>

\* ---------------------------------------------------------------------- main
\* main after find_host_in_proxmox returned, and the dispatch of snapshot_vm.
\* (find_host_in_proxmox returns no type but "lxc" and "qemu", so the branch
\* of snapshot_vm for an unknown type is never taken.)
MainResult ==
  /\ pc = "main_result"
  /\ \/ /\ result = NoResult
        /\ stderr' = Append(stderr, ErrorLine("not_found", "main", ""))
        /\ Exit(1)
     \/ /\ result.type = "lxc"
        /\ pc' = "lxc_config"
        /\ UNCHANGED <<stderr, exit_code>>
     \/ /\ result.type = "qemu"
        /\ pc' = "snap_request"
        /\ UNCHANGED <<stderr, exit_code>>
  /\ UNCHANGED <<env, srv, find_locals, result, mount_points, mi, pending, upid, wait_locals,
                 calls, stdout>>

\* The end of main after snapshot_vm returned; out is what was printed so far.
MainDone(out) ==
  /\ stdout' = Append(out, Info("Snapshot completed successfully!", 0))
  /\ Exit(0)

\* ------------------------------------------------------- create_lxc_snapshot
\* config = get_lxc_config(host_config, vmid), and the mount points of it.
LxcGetConfig ==
  /\ pc = "lxc_config"
  /\ \/ /\ calls' = Append(calls,
             Call("get_lxc_config", "GET", result.host, "lxc", result.vmid, <<>>, <<>>, {}, TRUE))
        /\ LET config == srv[EntityOf(result.host, "lxc", result.vmid)]
           IN  mount_points' = [k \in {x \in DOMAIN config : StartsWithMp(x)} |-> config[k]]
        /\ IF DOMAIN mount_points' # {}
           THEN /\ pc' = "remove"
                /\ stdout' = Append(stdout,
                     Info("Found mount point(s)", Cardinality(DOMAIN mount_points')))
           ELSE /\ pc' = "snap_request"
                /\ UNCHANGED stdout
        /\ UNCHANGED <<stderr, exit_code>>
     \/ /\ calls' = Append(calls,
             Call("get_lxc_config", "GET", result.host, "lxc", result.vmid, <<>>, <<>>, {}, FALSE))
        /\ stderr' = Append(stderr, ErrorLine("http", "get_lxc_config", ""))
        /\ Exit(1)
        /\ UNCHANGED <<mount_points, stdout>>
  /\ UNCHANGED <<env, srv, find_locals, result, mi, pending, upid, wait_locals>>

\* A slip of Raise: no finally block.
RaiseWithoutFinally == Exit(1) /\ UNCHANGED <<pending, mi>>

\* A SystemExit raised inside the try block of create_lxc_snapshot, or inside
\* create_qemu_snapshot: the finally block restores the mount points, if
\* there are any, before the exception goes on to end the process.
Raise ==
  IF result.type = "lxc" /\ DOMAIN mount_points # {}
  THEN pending' = TRUE /\ mi' = 1 /\ pc' = "restore" /\ UNCHANGED exit_code
  ELSE Exit(1) /\ UNCHANGED <<pending, mi>>

\* A normal return of wait_for_task: the finally block of create_lxc_snapshot
\* if there are mount points, else the end of main.
Return(out) ==
  IF result.type = "lxc" /\ DOMAIN mount_points # {}
  THEN stdout' = out /\ mi' = 1 /\ pc' = "restore" /\ UNCHANGED <<pending, exit_code>>
  ELSE MainDone(out) /\ UNCHANGED <<pending, mi>>

\* A slip of RemoveFailed: the failure is swallowed and the loop goes on.
RemoveFailedIgnored ==
  /\ stderr' = Append(stderr, ErrorLine("http", "delete_lxc_mount_point", ""))
  /\ IF mi < Len(KeysInOrder(mount_points))
     THEN mi' = mi + 1 /\ UNCHANGED pc
     ELSE mi' = 1 /\ pc' = "snap_request"
  /\ UNCHANGED <<pending, exit_code>>

\* delete_lxc_mount_point when the call fails: fatal prints its line and the
\* SystemExit leaves the removal loop and the try block.
RemoveFailed ==
  /\ stderr' = Append(stderr, ErrorLine("http", "delete_lxc_mount_point", ""))
  /\ Raise

\* One iteration of the removal loop: delete_lxc_mount_point.
Remove ==
  /\ pc = "remove"
  /\ LET mp_key == KeysInOrder(mount_points)[mi]
         i == EntityOf(result.host, "lxc", result.vmid)
     IN  /\ stdout' = Append(stdout, Info("Removing", mp_key))
         /\ \/ /\ calls' = Append(calls,
                    Call("delete_lxc_mount_point", "PUT", result.host, "lxc", result.vmid,
                         mp_key, <<>>, {}, TRUE))
               /\ srv' = [srv EXCEPT ![i] = ApplyPut(@, Urlencode(KDelete, mp_key))]
               /\ IF mi < Len(KeysInOrder(mount_points))
                  THEN mi' = mi + 1 /\ UNCHANGED pc
                  ELSE mi' = 1 /\ pc' = "snap_request"
               /\ UNCHANGED <<pending, stderr, exit_code>>
            \/ /\ calls' = Append(calls,
                    Call("delete_lxc_mount_point", "PUT", result.host, "lxc", result.vmid,
                         mp_key, <<>>, {}, FALSE))
               /\ RemoveFailed
               /\ UNCHANGED srv
  /\ UNCHANGED <<env, find_locals, result, mount_points, upid, wait_locals>>

\* --------------------------------------------------- create_snapshot_request
\* A slip of SnapshotData: vmstate is sent for every type.
SnapshotDataWithVmstate(vm_type) == {"snapname", "description", "vmstate=0"}

\* The parameters of the snapshot request.
SnapshotData(vm_type) ==
  {"snapname", "description"} \cup (IF vm_type = "qemu" THEN {"vmstate=0"} ELSE {})

\* create_snapshot_request, from create_lxc_snapshot or create_qemu_snapshot,
\* and the start of wait_for_task when it returns a task handle.
SnapRequest ==
  /\ pc = "snap_request"
  /\ \/ /\ calls' = Append(calls,
             Call("create_snapshot_request", "POST", result.host, result.type, result.vmid,
                  <<>>, <<>>, SnapshotData(result.type), TRUE))
        /\ upid' = "UPID"
        /\ stdout' = stdout \o <<Info("Creating snapshot", 0), Info("Waiting for task", 0)>>
        /\ t' = 0
        /\ pc' = "wait"
        /\ UNCHANGED <<mi, pending, stderr, exit_code>>
     \/ /\ calls' = Append(calls,
             Call("create_snapshot_request", "POST", result.host, result.type, result.vmid,
                  <<>>, <<>>, SnapshotData(result.type), TRUE))
        /\ stdout' = Append(stdout, Info("Creating snapshot", 0))
        /\ stderr' = Append(stderr, ErrorLine("no_upid", "create_snapshot_request", ""))
        /\ Raise
        /\ UNCHANGED <<upid, t>>
     \/ /\ calls' = Append(calls,
             Call("create_snapshot_request", "POST", result.host, result.type, result.vmid,
                  <<>>, <<>>, SnapshotData(result.type), FALSE))
        /\ stdout' = Append(stdout, Info("Creating snapshot", 0))
        /\ stderr' = Append(stderr, ErrorLine("http", "create_snapshot_request", ""))
        /\ Raise
        /\ UNCHANGED <<upid, t>>
  /\ UNCHANGED <<env, srv, find_locals, result, mount_points, elapsed, status, polls, sleeps>>

\* ------------------------------------------------------------- wait_for_task
\* The exit statuses a stopped task reports ("" when it reports none).
ExitStatuses == {"OK", "ERR", ""}

\* A slip of TimedOut: the deadline itself counts as beyond it.
TimedOutAtDeadline(e) == e >= TASK_TIMEOUT

\* elapsed > TASK_TIMEOUT
TimedOut(e) == e > TASK_TIMEOUT

\* A slip of IsOk: a missing exit status counts as OK.
IsOkOrMissing(exitstatus) == exitstatus \in {"OK", ""}

\* exitstatus == "OK"
IsOk(exitstatus) == exitstatus = "OK"

\* A slip of TaskFailed: the line is printed but nothing is raised, and the
\* loop goes on.
TaskFailedNotRaised(exitstatus) ==
  /\ stderr' = Append(stderr, ErrorLine("task_failed", "wait_for_task", exitstatus))
  /\ UNCHANGED <<pc, mi, pending, exit_code>>

\* fatal(f"Task failed with status: {exitstatus}")
TaskFailed(exitstatus) ==
  /\ stderr' = Append(stderr, ErrorLine("task_failed", "wait_for_task", exitstatus))
  /\ Raise

\* One iteration of the polling loop: the deadline check, the status call,
\* and the sleep when the task is not stopped.
WaitForTask ==
  /\ pc = "wait"
  /\ elapsed' = t
  /\ \/ /\ TimedOut(t)
        /\ stderr' = Append(stderr, ErrorLine("task_timeout", "wait_for_task", ""))
        /\ Raise
        /\ UNCHANGED <<t, status, polls, sleeps, stdout>>
     \/ /\ ~TimedOut(t)
        /\ polls' = polls + 1
        /\ t' = t + callTime
        /\ stderr' = Append(stderr, ErrorLine("http", "wait_for_task", ""))
        /\ Raise
        /\ UNCHANGED <<status, sleeps, stdout>>
     \/ /\ ~TimedOut(t)
        /\ t < taskDur
        /\ polls' = polls + 1
        /\ status' = [status |-> "running", exitstatus |-> ""]
        /\ sleeps' = sleeps + 1
        /\ t' = t + callTime + TASK_POLL_INTERVAL
        /\ UNCHANGED <<pc, mi, pending, stdout, stderr, exit_code>>
     \/ /\ ~TimedOut(t)
        /\ t >= taskDur
        /\ polls' = polls + 1
        /\ t' = t + callTime
        /\ \E exitstatus \in ExitStatuses :
             /\ status' = [status |-> "stopped", exitstatus |-> exitstatus]
             /\ \/ /\ IsOk(exitstatus)
                   /\ Return(Append(stdout, Info("Task completed successfully", 0)))
                   /\ UNCHANGED stderr
                \/ /\ ~IsOk(exitstatus)
                   /\ TaskFailed(exitstatus)
                   /\ UNCHANGED stdout
        /\ UNCHANGED sleeps
  /\ UNCHANGED <<env, srv, find_locals, result, mount_points, upid, calls>>

\* ------------------------------------------ create_lxc_snapshot: the finally
\* A slip of AfterFinally: the finally block swallows the SystemExit.
AfterFinallySwallowing(out) == MainDone(out)

\* The end of the finally block: a SystemExit that was passing it ends the
\* process, else create_lxc_snapshot returns to main.
AfterFinally(out) ==
  IF pending THEN stdout' = out /\ Exit(1) ELSE MainDone(out)

\* The end of one iteration of the restoration loop.
NextRestore(out) ==
  IF mi < Len(KeysInOrder(mount_points))
  THEN stdout' = out /\ mi' = mi + 1 /\ UNCHANGED <<pc, exit_code>>
  ELSE mi' = 1 /\ AfterFinally(out)

\* A slip of RestoreFailed: the SystemExit is not caught.
RestoreFailedUncaught(out, mp_key) ==
  /\ stderr' = Append(stderr, ErrorLine("http", "restore_lxc_mount_point", mp_key))
  /\ stdout' = out
  /\ mi' = mi
  /\ Exit(1)

\* except SystemExit: the restoration call failed; fatal has printed its
\* line, the warning is printed and the loop goes on.
RestoreFailed(out, mp_key) ==
  /\ stderr' = stderr \o <<ErrorLine("http", "restore_lxc_mount_point", mp_key),
                           WarningLine("restore_failed", "create_lxc_snapshot", mp_key)>>
  /\ NextRestore(out)

\* One iteration of the restoration loop: restore_lxc_mount_point.
Restore ==
  /\ pc = "restore"
  /\ LET mp_key == KeysInOrder(mount_points)[mi]
         mp_value == mount_points[mp_key]
         i == EntityOf(result.host, "lxc", result.vmid)
         out == (IF mi = 1 THEN Append(stdout, Info("Restoring mount points", 0)) ELSE stdout)
                  \o <<Info("Restoring", mp_key)>>
     IN  \/ /\ calls' = Append(calls,
                 Call("restore_lxc_mount_point", "PUT", result.host, "lxc", result.vmid,
                      mp_key, mp_value, {}, TRUE))
            /\ srv' = [srv EXCEPT ![i] = ApplyPut(@, Urlencode(mp_key, mp_value))]
            /\ NextRestore(out)
            /\ UNCHANGED stderr
         \/ /\ calls' = Append(calls,
                 Call("restore_lxc_mount_point", "PUT", result.host, "lxc", result.vmid,
                      mp_key, mp_value, {}, FALSE))
            /\ RestoreFailed(out, mp_key)
            /\ UNCHANGED srv
  /\ UNCHANGED <<env, find_locals, result, mount_points, pending, upid, wait_locals>>

Next ==
  \/ ListLxc
  \/ LxcLoop
  \/ ListQemu
  \/ QemuLoop
  \/ MainResult
  \/ LxcGetConfig
  \/ Remove
  \/ SnapRequest
  \/ WaitForTask
  \/ Restore

Spec == Init /\ [][Next]_vars

\* ---------------------------- create_lxc_snapshot, the bind-mount-skip variant
\* A slip of IsBindMount: no mount point is taken for a bind mount.
IsBindMountNever(mp_value) == FALSE

\* The source of a mount-point value is the text before its first comma; it
\* is a bind mount when that is an absolute path.
IsBindMount(mp_value) == Len(mp_value) > 0 /\ Head(mp_value) = "/"

\* The mount-point keys of a configuration that are bind mounts.
BindMounts(config) ==
  {k \in DOMAIN config : StartsWithMp(k) /\ IsBindMount(config[k])}

\* The variant of create_lxc_snapshot that skips a container with bind
\* mounts: the configuration is read; with a bind mount in it the snapshot
\* is given up with a warning, "skipped" is reported and the process ends
\* with exit code 0; else the snapshot is requested with no mutation.
LxcGetConfigSkip ==
  /\ pc = "lxc_config"
  /\ \/ /\ calls' = Append(calls,
             Call("get_lxc_config", "GET", result.host, "lxc", result.vmid, <<>>, <<>>, {}, TRUE))
        /\ LET config == srv[EntityOf(result.host, "lxc", result.vmid)]
           IN  IF BindMounts(config) # {}
               THEN /\ stderr' = Append(stderr,
                         WarningLine("bind_mounts", "create_lxc_snapshot", ""))
                    /\ stdout' = Append(stdout,
                         Info("Snapshot skipped", Cardinality(BindMounts(config))))
                    /\ Exit(0)
               ELSE /\ pc' = "snap_request"
                    /\ UNCHANGED <<stdout, stderr, exit_code>>
     \/ /\ calls' = Append(calls,
             Call("get_lxc_config", "GET", result.host, "lxc", result.vmid, <<>>, <<>>, {}, FALSE))
        /\ stderr' = Append(stderr, ErrorLine("http", "get_lxc_config", ""))
        /\ Exit(1)
        /\ UNCHANGED stdout
  /\ UNCHANGED <<env, srv, find_locals, result, mount_points, mi, pending, upid, wait_locals>>

\* The program with the bind-mount-skip variant of create_lxc_snapshot: it
\* has no removal and no restoration loop.
NextSkip ==
  \/ ListLxc
  \/ LxcLoop
  \/ ListQemu
  \/ QemuLoop
  \/ MainResult
  \/ LxcGetConfigSkip
  \/ SnapRequest
  \/ WaitForTask

SpecSkip == Init /\ [][NextSkip]_vars

\* ================================================================== claims
Exited == pc = "exited"

Found == result # NoResult

\* The located entity, and the mount-point keys its configuration had when
\* the process started, as a set and in the order of the configuration.
Located == EntityOf(result.host, result.type, result.vmid)

LocatedMpKeys == IF Found THEN DOMAIN srv0[Located] \cap MpKeys ELSE {}

LocatedMpOrder ==
  LET In(k) == k \in LocatedMpKeys
  IN  SelectSeq(KeyOrder, In)

\* The calls of one operation, in the order they were made.
CallsOf(op) ==
  LET Is(c) == c.op = op
  IN  SelectSeq(calls, Is)

\* The keys of a sequence of calls.
KeysOf(cs) == [i \in 1..Len(cs) |-> cs[i].key]

IsPrefix(a, b) == Len(a) <= Len(b) /\ SubSeq(b, 1, Len(a)) = a

Removals == CallsOf("delete_lxc_mount_point")

Restorations == CallsOf("restore_lxc_mount_point")

\* The configuration read of create_lxc_snapshot succeeded.
ConfigRead == \E i \in 1..Len(calls) : calls[i].op = "get_lxc_config" /\ calls[i].ok

\* An ERROR line of the given operation and message was printed.
Printed(msg, op) ==
  \E i \in 1..Len(stderr) :
    stderr[i].level = "ERROR" /\ stderr[i].msg = msg /\ stderr[i].op = op

\* The snapshot request or the awaited task failed fatally.
SnapshotFailed ==
  \/ Printed("http", "create_snapshot_request")
  \/ Printed("no_upid", "create_snapshot_request")
  \/ Printed("http", "wait_for_task")
  \/ Printed("task_failed", "wait_for_task")
  \/ Printed("task_timeout", "wait_for_task")

\* C1: once the removal loop of create_lxc_snapshot has begun, the process
\* does not end before a restoration attempt (a PUT of the key with the value
\* read before the removal) was made for every mount-point key of the
\* container, whatever failed: a removal call, the snapshot request, the
\* task, the polling, or an earlier restoration attempt.
C1_RestoreOnEveryExitPath ==
  (Exited /\ Len(Removals) > 0) =>
    \A k \in LocatedMpKeys :
      \E i \in 1..Len(calls) :
        /\ calls[i].op = "restore_lxc_mount_point"
        /\ calls[i].key = k
        /\ calls[i].host = result.host
        /\ calls[i].vmid = result.vmid

\* C1 witness: the task timed out, the restoration of the first key failed,
\* and the second key still got its restoration attempt.
C1_Witness ==
  /\ Exited
  /\ Printed("task_timeout", "wait_for_task")
  /\ Len(Restorations) = 2
  /\ ~Restorations[1].ok
  /\ Restorations[2].key = MpKey(2)

\* C2 as stated: every run of create_lxc_snapshot issues exactly N removal
\* calls and exactly N restoration attempts, whichever call fails.
C2_Original ==
  (Exited /\ \E i \in 1..Len(calls) : calls[i].op = "get_lxc_config") =>
    /\ Len(Removals) = Cardinality(LocatedMpKeys)
    /\ Len(Restorations) = Cardinality(LocatedMpKeys)

\* C2 amended: every run of create_lxc_snapshot whose configuration read
\* succeeded issues exactly N restoration attempts, one per mount-point key,
\* and at most N removal calls, one per key in order: exactly N when no
\* removal call fails, and none after the first removal call that fails.
C2_ExactlyNRestorations ==
  (Exited /\ ConfigRead) =>
    /\ KeysOf(Restorations) = LocatedMpOrder
    /\ IsPrefix(KeysOf(Removals), LocatedMpOrder)
    /\ (\A i \in 1..Len(Removals) : Removals[i].ok) => KeysOf(Removals) = LocatedMpOrder
    /\ \A i \in 1..Len(Removals) : ~Removals[i].ok => i = Len(Removals)

\* C2 witness: two mount points, the first removal call failed, so there is
\* one removal call and there are two restoration attempts.
C2_Witness ==
  /\ Exited
  /\ Cardinality(LocatedMpKeys) = 2
  /\ Len(Removals) = 1
  /\ ~Removals[1].ok
  /\ Len(Restorations) = 2

\* C3: when the snapshot request or the awaited task of a container with
\* mount points failed fatally, the process ends with exit code 1, and only
\* after the restoration loop has made its attempt for every key, whether
\* those attempts succeeded or failed.
C3_FailureNotMasked ==
  (Exited /\ Found /\ result.type = "lxc" /\ LocatedMpKeys # {} /\ SnapshotFailed) =>
    /\ exit_code = 1
    /\ Len(Restorations) = Cardinality(LocatedMpKeys)

\* C3 witness: the snapshot request failed, one restoration succeeded and
\* one failed, and the process ended with exit code 1.
C3_Witness ==
  /\ Exited
  /\ exit_code = 1
  /\ Printed("http", "create_snapshot_request")
  /\ Len(Restorations) = 2
  /\ Restorations[1].ok
  /\ ~Restorations[2].ok

\* C4: every restoration call carries the value the key had before the
\* removal, and when every removal and every restoration call of a run
\* succeeded, the configuration of every entity on the hypervisor is, key for
\* key and value for value, what it was before the run.
C4_RoundTrip ==
  /\ \A i \in 1..Len(Restorations) :
       Restorations[i].val = srv0[Located][Restorations[i].key]
  /\ (/\ Exited
      /\ ConfigRead
      /\ \A i \in 1..Len(Removals) : Removals[i].ok
      /\ \A i \in 1..Len(Restorations) : Restorations[i].ok) => srv = srv0

\* C4 witness: both mount points, one of them the volume whose value holds a
\* space, a plus and a percent sign, were removed and restored.
C4_Witness ==
  /\ Exited
  /\ Len(Removals) = 2
  /\ Len(Restorations) = 2
  /\ \A i \in 1..2 : Removals[i].ok /\ Restorations[i].ok
  /\ Restorations[2].val = VolumeValue
  /\ srv = srv0

\* C5: when the last status poll reported the task stopped with exit status
\* OK and one or more restoration calls failed, the process ends with exit
\* code 0, and each failed restoration is reported by a WARNING line.
C5_RestoreFailureNotFatal ==
  (/\ Exited
   /\ status = [status |-> "stopped", exitstatus |-> "OK"]
   /\ \E i \in 1..Len(Restorations) : ~Restorations[i].ok) =>
    /\ exit_code = 0
    /\ \A i \in 1..Len(Restorations) :
         ~Restorations[i].ok =>
           \E j \in 1..Len(stderr) :
             stderr[j].level = "WARNING" /\ stderr[j].detail = Restorations[i].key

\* C5 witness: the task ended OK, both restoration calls failed, exit code 0.
C5_Witness ==
  /\ Exited
  /\ exit_code = 0
  /\ status.exitstatus = "OK"
  /\ Len(Restorations) = 2
  /\ ~Restorations[1].ok
  /\ ~Restorations[2].ok

\* ------------------------------------------------------ claims on the search
\* Entity i reports the target hostname: a container with an ID whose
\* configuration names it, or a machine with an ID whose guest agent answers
\* with it.
Reports(i) ==
  /\ world[i].hasId
  /\ world[i].name = TargetHostname
  /\ world[i].type = "qemu" => world[i].agent = "up"

Matching(ty) == {i \in 1..Len(world) : world[i].type = ty /\ Reports(i)}

\* The first entity in iteration order that reports the target hostname:
\* hosts in configured order, containers before machines, listing order.
FirstMatch ==
  CHOOSE i \in 1..Len(world) : Reports(i) /\ \A j \in 1..(i - 1) : ~Reports(j)

\* The calls the search makes.
SearchOps == {"list_vms", "get_lxc_hostname", "get_qemu_hostname"}

SearchCalls ==
  LET Is(c) == c.op \in SearchOps
  IN  SelectSeq(calls, Is)

\* C6: when no entity of any instance reports the target hostname, nothing
\* is located, no snapshot request (POST) and no configuration-mutating call
\* (PUT) is ever issued, the process can only end with exit code 1, and when
\* every listing and container-configuration call succeeded it ends with the
\* not-found error.
C6_NotFoundIsFatal ==
  (\A i \in 1..Len(world) : ~Reports(i)) =>
    /\ ~Found
    /\ \A i \in 1..Len(calls) : calls[i].method = "GET"
    /\ upid = ""
    /\ Exited => exit_code = 1
    /\ (Exited /\ \A i \in 1..Len(calls) : calls[i].ok \/ calls[i].op = "get_qemu_hostname")
         => Printed("not_found", "main")

\* C6 witness: a container and a machine with other hostnames and a machine
\* whose guest agent is down were inspected, and the process ended with the
\* not-found error.
C6_Witness ==
  /\ Exited
  /\ exit_code = 1
  /\ Printed("not_found", "main")
  /\ \E i \in 1..Len(calls) : calls[i].op = "get_lxc_hostname" /\ calls[i].ok
  /\ \E i \in 1..Len(calls) : calls[i].op = "get_qemu_hostname"
  /\ Len(world) = 3

\* C7 as stated: whenever a container and a machine both report the target
\* hostname, on the same endpoint or on different ones, the container-type
\* entity is returned.
C7_Original ==
  (Found /\ Matching("lxc") # {} /\ Matching("qemu") # {}) => result.type = "lxc"

\* C7 amended: whenever a container and a machine both report the target
\* hostname and such a container is on the same endpoint as, or on an
\* earlier endpoint than, every such machine, the container-type entity is
\* returned; and a machine is never returned while a container of its own or
\* of an earlier endpoint reports the target hostname.
C7_ContainerPriorityPerEndpoint ==
  /\ (/\ Found
      /\ Matching("qemu") # {}
      /\ \E c \in Matching("lxc") : \A m \in Matching("qemu") : world[c].host <= world[m].host)
       => result.type = "lxc"
  /\ (Found /\ result.type = "qemu")
       => \A c \in Matching("lxc") : world[c].host > result.host

\* C7 witness: a container and a machine of the same endpoint report the
\* target hostname and the container is returned.
C7_Witness ==
  /\ Found
  /\ result.type = "lxc"
  /\ \E c \in Matching("lxc") : \E m \in Matching("qemu") : world[c].host = world[m].host

\* C8: the entity returned is the first one in iteration order that reports
\* the target hostname, and the search stops there: its last call is the
\* hostname query of the returned entity, and no call of it addresses a later
\* entity or lists a later host.
C8_FirstMatchShortCircuit ==
  Found =>
    /\ Located = FirstMatch
    /\ LET last == SearchCalls[Len(SearchCalls)]
       IN  /\ last.op # "list_vms"
           /\ last.host = result.host
           /\ last.type = result.type
           /\ last.vmid = result.vmid
    /\ \A i \in 1..Len(SearchCalls) :
         /\ SearchCalls[i].host <= result.host
         /\ (SearchCalls[i].host = result.host /\ result.type = "lxc")
              => SearchCalls[i].type = "lxc"
         /\ SearchCalls[i].op # "list_vms"
              => EntityOf(SearchCalls[i].host, SearchCalls[i].type, SearchCalls[i].vmid)
                   <= Located

\* C8 witness: two containers of one listing report the target hostname; the
\* first is returned and the second was never queried.
C8_Witness ==
  /\ Found
  /\ Exited
  /\ Cardinality(Matching("lxc")) >= 2
  /\ \E c \in Matching("lxc") : c > Located /\ world[c].host = result.host
  /\ Cardinality({i \in 1..Len(calls) : calls[i].op = "get_lxc_hostname"}) = 1

\* C9: a failed guest-agent hostname query never ends the process (a process
\* that ended with exit code 1 printed another error after it), the search
\* goes on to the first entity that reports the target hostname, and reports
\* not-found only when there is none; a failed listing call or a failed
\* container-configuration call of the search ends the process at once with
\* exit code 1 and nothing located.
C9_AgentFailureSkipped ==
  /\ (Exited /\ exit_code = 1) =>
       ~(stderr[Len(stderr)].level = "ERROR" /\ stderr[Len(stderr)].op = "get_qemu_hostname")
  /\ (\E i \in 1..Len(calls) : calls[i].op = "get_qemu_hostname" /\ ~calls[i].ok) =>
       /\ Found => Located = FirstMatch
       /\ Printed("not_found", "main") => \A i \in 1..Len(world) : ~Reports(i)
  /\ \A i \in 1..Len(calls) :
       (calls[i].op \in {"list_vms", "get_lxc_hostname"} /\ ~calls[i].ok) =>
         i = Len(calls) /\ Exited /\ exit_code = 1 /\ ~Found

\* C9 witness (scenario C): the guest agent of the first machine of the
\* second endpoint is down, and the second machine of that endpoint, which
\* answers with the target hostname, is located.
C9_Witness ==
  /\ Found
  /\ result.type = "qemu"
  /\ result.host = 2
  /\ \E i \in 1..Len(calls) :
       /\ calls[i].op = "get_qemu_hostname"
       /\ ~calls[i].ok
       /\ calls[i].host = 2
       /\ calls[i].vmid < result.vmid
  /\ Cardinality(Matching("lxc") \cup Matching("qemu")) = 1

\* ------------------------------------------------- claims on the task awaiter
\* wait_for_task returned normally.
Completed ==
  \E i \in 1..Len(stdout) : stdout[i].msg = "Task completed successfully"

\* C10: wait_for_task returns success exactly when a status poll reported
\* the task stopped with exit status OK, that poll was made with elapsed not
\* beyond the timeout, no poll follows a poll that reported the task stopped,
\* the process ends with exit code 0 only after such a return, and a task
\* that is stopped with OK at the first poll is reported successful after
\* exactly one poll and no sleep.
C10_SuccessOnFirstStoppedOk ==
  /\ Completed <=> status = [status |-> "stopped", exitstatus |-> "OK"]
  /\ Completed => elapsed <= TASK_TIMEOUT
  /\ status.status = "stopped" => pc # "wait"
  /\ (Exited /\ exit_code = 0) => Completed
  /\ (Completed /\ taskDur = 0) => polls = 1 /\ sleeps = 0
  /\ Completed => sleeps = polls - 1

\* C10 witness: the task was stopped with OK at the first poll.
C10_Witness ==
  /\ Completed
  /\ taskDur = 0
  /\ polls = 1
  /\ sleeps = 0
  /\ exit_code = 0

\* C11: a poll that reports "stopped" with an exit status other than "OK",
\* a missing one included, ends the wait with the fatal "Task failed" line:
\* wait_for_task does not return (its success line is never printed) and
\* the process ends with exit code 1. After a poll that reported
\* "stopped", and after the timeout line was printed, the polling loop is
\* left, so that no further status call is made.
C11_StoppedNotOkIsFatal ==
  /\ (status.status = "stopped" /\ status.exitstatus # "OK") =>
        /\ Printed("task_failed", "wait_for_task")
        /\ ~Completed
        /\ Exited => exit_code = 1
  /\ (status.status = "stopped" \/ Printed("task_timeout", "wait_for_task")) =>
        /\ pc # "wait"
        /\ polls <= (TASK_TIMEOUT \div TASK_POLL_INTERVAL) + 1

\* C11 witness: the task stopped without an exit status at the second poll,
\* and the process ended with exit code 1 after two polls.
C11_Witness ==
  /\ Exited
  /\ exit_code = 1
  /\ status = [status |-> "stopped", exitstatus |-> ""]
  /\ polls = 2
  /\ Printed("task_failed", "wait_for_task")

\* The quotient of a by b, rounded up.
CeilDiv(a, b) == (a + b - 1) \div b

\* The task was awaited until the timeout line was printed, with status
\* calls that took no time.
TimedOutOnIdealClock == callTime = 0 /\ Printed("task_timeout", "wait_for_task")

\* C12 as stated: when the task never reports "stopped" and the clock
\* advances only by the sleep between polls, the timeout is reported after
\* exactly ceil(TASK_TIMEOUT / TASK_POLL_INTERVAL) status calls (60).
C12_Original ==
  TimedOutOnIdealClock => polls = CeilDiv(TASK_TIMEOUT, TASK_POLL_INTERVAL)

\* C12 amended: in that case the status calls are made at elapsed times
\* 0, 2, ..., 120, the deadline included because the test is elapsed >
\* TASK_TIMEOUT, so the timeout is reported after exactly
\* floor(TASK_TIMEOUT / TASK_POLL_INTERVAL) + 1 status calls (61), each
\* followed by one sleep; it is reported with elapsed beyond the deadline,
\* the loop is left without a further status call, and the process ends
\* with exit code 1.
C12_TimeoutAfterFloorPlusOnePolls ==
  /\ (pc = "wait" /\ callTime = 0) =>
        /\ t = polls * TASK_POLL_INTERVAL
        /\ sleeps = polls
  /\ TimedOutOnIdealClock =>
        /\ polls = (TASK_TIMEOUT \div TASK_POLL_INTERVAL) + 1
        /\ sleeps = polls
        /\ elapsed = polls * TASK_POLL_INTERVAL
        /\ elapsed > TASK_TIMEOUT
        /\ status.status # "stopped"
        /\ pc # "wait"
        /\ Exited => exit_code = 1

\* C12 witness: a task that was still running long after the deadline was
\* polled 61 times without delay, and the process ended with exit code 1.
C12_Witness ==
  /\ Exited
  /\ exit_code = 1
  /\ TimedOutOnIdealClock
  /\ taskDur > TASK_TIMEOUT
  /\ polls = 61

\* The located entity is a container whose configuration has a mount point
\* with an absolute source path.
LocatedHasBindMount ==
  /\ Found
  /\ result.type = "lxc"
  /\ \E k \in LocatedMpKeys : Head(srv0[Located][k]) = "/"

\* "skipped" was reported.
Skipped == \E i \in 1..Len(stdout) : stdout[i].msg = "Snapshot skipped"

\* C13: under the bind-mount-skip variant, for a located container whose
\* configuration has a mount point with an absolute source path, no removal
\* call, no restoration call and no snapshot request is ever issued, no
\* configuration changes, and once the configuration was read the process
\* ends reporting "skipped" with a warning and exit code 0.
C13_BindMountSkip ==
  LocatedHasBindMount =>
    /\ \A i \in 1..Len(calls) : calls[i].method = "GET"
    /\ Removals = <<>> /\ Restorations = <<>>
    /\ CallsOf("create_snapshot_request") = <<>>
    /\ srv = srv0
    /\ polls = 0
    /\ (Exited /\ ConfigRead) =>
          /\ exit_code = 0
          /\ Skipped
          /\ stderr # <<>>
          /\ stderr[Len(stderr)].level = "WARNING"
          /\ stderr[Len(stderr)].msg = "bind_mounts"

\* C13 witness: a container with a bind mount was located, its
\* configuration was read, and the process ended with "skipped" and exit
\* code 0 without any call other than the reads.
C13_Witness ==
  /\ Exited
  /\ LocatedHasBindMount
  /\ ConfigRead
  /\ Skipped
  /\ exit_code = 0
  /\ srv = srv0

\* The operations whose failure the program recovers from: the guest-agent
\* call of the search and a restoration call of the finally block.
RecoverableOps == {"get_qemu_hostname", "restore_lxc_mount_point"}

\* The ERROR lines written so far.
ErrorLines ==
  LET Is(l) == l.level = "ERROR"
  IN  SelectSeq(stderr, Is)

\* C14: an ERROR line is written only for a fatal condition, so a run that
\* wrote one ends with exit code 1; a recoverable condition (guest agent
\* unavailable, restoration failure) writes at most a WARNING line and no
\* ERROR line.
C14_ErrorLineOnlyWhenFatal ==
  /\ (Exited /\ ErrorLines # <<>>) => exit_code = 1
  /\ \A i \in 1..Len(ErrorLines) : ErrorLines[i].op \notin RecoverableOps

\* The snapshot requests issued so far.
SnapshotRequests == CallsOf("create_snapshot_request")

\* An entity was located, exactly one snapshot request was issued, for it,
\* and returned a task handle, and a poll of that task reported it stopped
\* with exit status OK.
SnapshotSucceeded ==
  /\ Found
  /\ Len(SnapshotRequests) = 1
  /\ SnapshotRequests[1].ok
  /\ SnapshotRequests[1].host = result.host
  /\ SnapshotRequests[1].type = result.type
  /\ SnapshotRequests[1].vmid = result.vmid
  /\ upid # ""
  /\ polls >= 1
  /\ status = [status |-> "stopped", exitstatus |-> "OK"]

\* C15: the process ends with exit code 0 only if an entity was located,
\* exactly one snapshot request was issued for it and returned a task
\* handle, and a poll reported the task stopped with OK; every other run
\* that ends, ends with exit code 1.
C15_ExitCodeContract ==
  Exited =>
    /\ exit_code \in {0, 1}
    /\ exit_code = 0 => SnapshotSucceeded
    /\ ~SnapshotSucceeded => exit_code = 1

\* C15 witness: a machine was located after a machine whose guest agent was
\* down, its snapshot task was stopped with OK at the first poll, and the
\* process ended with exit code 0.
C15_Witness ==
  /\ Exited
  /\ exit_code = 0
  /\ SnapshotSucceeded
  /\ result.type = "qemu"
  /\ polls = 1
  /\ Printed("http", "get_qemu_hostname")

\* C16: every snapshot request carries snapname and description; it carries
\* vmstate=0 exactly when the entity it addresses is a machine; and it
\* addresses, by instance, type and ID, the entity the search returned,
\* which is the first entity in iteration order that reports the target
\* hostname.
C16_SnapshotRequestShape ==
  \A i \in 1..Len(SnapshotRequests) :
    LET c == SnapshotRequests[i]
    IN  /\ {"snapname", "description"} \subseteq c.params
        /\ c.params \subseteq {"snapname", "description", "vmstate=0"}
        /\ c.method = "POST"
        /\ Found
        /\ c.host = result.host /\ c.type = result.type /\ c.vmid = result.vmid
        /\ Located = FirstMatch
        /\ c.host = world[FirstMatch].host
        /\ c.type = world[FirstMatch].type
        /\ c.vmid = Vmid(FirstMatch)
        /\ "vmstate=0" \in c.params <=> world[FirstMatch].type = "qemu"

\* C16 witness: a snapshot request for a machine of the second instance,
\* with snapname, description and vmstate=0.
C16_Witness ==
  /\ Len(SnapshotRequests) = 1
  /\ SnapshotRequests[1].type = "qemu"
  /\ SnapshotRequests[1].host = 2
  /\ SnapshotRequests[1].params = {"snapname", "description", "vmstate=0"}

\* The configuration keys of the located entity, as the hypervisor holds
\* them now, that start with "mp".
AttachedMpKeys ==
  {k \in DOMAIN srv[Located] : Len(k) >= 2 /\ SubSeq(k, 1, 2) = <<"m", "p">>}

\* C17: a snapshot request for a container is issued only after a removal
\* call for every mount-point key of its configuration has succeeded, so
\* that the configuration has no key starting with "mp" when the request is
\* issued and while its task is awaited; every removal call comes before the
\* request and every restoration call after it, and none of either is
\* issued between the request and the end of the polling.
C17_DetachBeforeSnapshot ==
  /\ \A i \in 1..Len(calls) :
       (calls[i].op = "create_snapshot_request" /\ calls[i].type = "lxc") =>
         /\ \A k \in LocatedMpKeys :
              \E j \in 1..(i - 1) :
                calls[j].op = "delete_lxc_mount_point" /\ calls[j].key = k /\ calls[j].ok
         /\ \A j \in 1..Len(calls) :
              /\ calls[j].op = "delete_lxc_mount_point" => j < i /\ calls[j].ok
              /\ calls[j].op = "restore_lxc_mount_point" => j > i
  /\ (pc \in {"snap_request", "wait"} /\ result.type = "lxc") =>
       /\ AttachedMpKeys = {}
       /\ Restorations = <<>>
  /\ pc = "wait" => calls[Len(calls)].op = "create_snapshot_request"

\* C17 witness: the task of a container that had two mount points is
\* awaited, after two removal calls and the snapshot request, with no mount
\* point in its configuration.
C17_Witness ==
  /\ pc = "wait"
  /\ polls = 1
  /\ result.type = "lxc"
  /\ Cardinality(LocatedMpKeys) = 2
  /\ Len(Removals) = 2
  /\ AttachedMpKeys = {}

\* A removal call has failed.
RemovalFailed == \E i \in 1..Len(Removals) : ~Removals[i].ok

\* C18: when a removal call fails part-way through the removal loop, no
\* snapshot request is issued and no task is polled; the finally block makes
\* a restoration attempt, with the value read before the removal, for every
\* mount-point key of the container, the keys that were removed before the
\* failure and the keys that were never removed alike; and the process ends
\* with exit code 1.
C18_PartialRemovalRollback ==
  RemovalFailed =>
    /\ SnapshotRequests = <<>>
    /\ upid = ""
    /\ polls = 0
    /\ pc \in {"restore", "exited"}
    /\ \A i \in 1..Len(Restorations) :
         Restorations[i].val = srv0[Located][Restorations[i].key]
    /\ Exited =>
         /\ exit_code = 1
         /\ KeysOf(Restorations) = LocatedMpOrder
         /\ \A i \in 1..Len(Removals) :
              \E j \in 1..Len(Restorations) : Restorations[j].key = Removals[i].key

\* C18 witness: of two mount points the first was removed and the removal
\* of the second failed; both got their restoration call, the configuration
\* is what it was, and the process ended with exit code 1.
C18_Witness ==
  /\ Exited
  /\ exit_code = 1
  /\ Len(Removals) = 2
  /\ Removals[1].ok
  /\ ~Removals[2].ok
  /\ Len(Restorations) = 2
  /\ srv = srv0

\* The snapshot task was started and, at the present time of the clock of
\* wait_for_task, has not stopped on the hypervisor.
TaskRunning == upid # "" /\ t < taskDur

\* C19: no restoration call is issued while the snapshot task is still
\* running on the hypervisor: the restoration loop starts only after a poll
\* has reported the task stopped or after the snapshot request failed or
\* was never issued, on the timeout path and after a failed status call too.
C19_NoRestoreWhileTaskRuns ==
  /\ (pc = "restore" \/ Restorations # <<>>) =>
        (upid = "" \/ status.status = "stopped")
  /\ Restorations # <<>> => ~TaskRunning

\* The calls that change something on the hypervisor.
MutatingCalls ==
  LET Is(c) == c.method # "GET"
  IN  SelectSeq(calls, Is)

\* C20: the search issues only GET calls, and nothing but GET calls is
\* issued before an entity is located; every PUT call addresses the
\* configuration of the located entity, which is a container, with a key
\* that starts with "mp" (to delete it or to set it), so that the
\* configuration of every other entity, and every other key of the located
\* container, stays what it was; and at most one snapshot request is issued
\* in a run.
C20_Frame ==
  /\ \A i \in 1..Len(SearchCalls) : SearchCalls[i].method = "GET"
  /\ ~Found => MutatingCalls = <<>>
  /\ \A i \in 1..Len(MutatingCalls) :
       LET c == MutatingCalls[i]
       IN  /\ c.host = result.host /\ c.type = result.type /\ c.vmid = result.vmid
           /\ c.method = "PUT" =>
                /\ c.type = "lxc"
                /\ c.op \in {"delete_lxc_mount_point", "restore_lxc_mount_point"}
                /\ c.key \in MpKeys
           /\ c.method = "POST" => c.op = "create_snapshot_request"
           /\ c.method \in {"PUT", "POST"}
  /\ \A i \in 1..Len(world) :
       IF Found /\ i = Located
       THEN /\ DOMAIN srv[i] \subseteq DOMAIN srv0[i]
            /\ \A k \in DOMAIN srv0[i] \ MpKeys : k \in DOMAIN srv[i] /\ srv[i][k] = srv0[i][k]
       ELSE srv[i] = srv0[i]
  /\ Len(SnapshotRequests) <= 1

\* C20 witness: a run on a world of three entities, with a container that
\* is not the located one, removed and restored the mount point of the
\* located container and issued one snapshot request.
C20_Witness ==
  /\ Exited
  /\ Found
  /\ Len(world) = 3
  /\ \E i \in 1..Len(world) : world[i].type = "lxc" /\ i # Located /\ DOMAIN srv0[i] \cap MpKeys # {}
  /\ Len(Removals) = 1
  /\ Len(Restorations) = 1
  /\ Len(SnapshotRequests) = 1
====
